---------------------------- MODULE Spec2Model ----------------------------
(***************************************************************************)
(* Model of single_translator_web/app.py: the translation retry wrapper    *)
(* translate_text_logic, the speech writer synthesize_speech_to_file and   *)
(* the POST /translate handler.                                            *)
(*                                                                         *)
(* Python strings are sequences of one-character strings, so that          *)
(* str.lower(), str.strip(), str.split() and the `in` substring test are   *)
(* computed as the code computes them.                                     *)
(***************************************************************************)
EXTENDS Integers, Sequences, FiniteSets, TLC

VARIABLES pc, request, retries, max_retries, initial_delay, result,
          outcomes, log, synth, files, response

vars == <<pc, request, retries, max_retries, initial_delay, result,
          outcomes, log, synth, files, response>>

(* Bounds of the direct invocations of translate_text_logic. *)
MaxRetriesBound == 3
MaxInitialDelay == 2

(* Defaults of translate_text_logic's keyword parameters. *)
DefaultMaxRetries == 3
DefaultInitialDelay == 1

(* Python's None: a value that is no sequence of characters. *)
None == <<"None">>

(* ------------------------- string primitives --------------------------- *)

UpperLetters ==
    <<"A", "B", "C", "D", "E", "F", "G", "H", "I", "J", "K", "L", "M",
      "N", "O", "P", "Q", "R", "S", "T", "U", "V", "W", "X", "Y", "Z">>

LowerLetters ==
    <<"a", "b", "c", "d", "e", "f", "g", "h", "i", "j", "k", "l", "m",
      "n", "o", "p", "q", "r", "s", "t", "u", "v", "w", "x", "y", "z">>

LowerChar(c) ==
    IF \E i \in 1..26 : UpperLetters[i] = c
    THEN LowerLetters[CHOOSE i \in 1..26 : UpperLetters[i] = c]
    ELSE c

(* str.lower() *)
Lower(s) == [i \in 1..Len(s) |-> LowerChar(s[i])]

(* `sub in s` *)
Contains(sub, s) ==
    \E i \in 0..(Len(s) - Len(sub)) : SubSeq(s, i + 1, i + Len(sub)) = sub

IsSpace(c) == c \in {" ", "\t", "\n"}

StripIdentity(s) == s

(* str.strip() *)
Strip(s) ==
    IF \A i \in 1..Len(s) : IsSpace(s[i])
    THEN <<>>
    ELSE LET first == CHOOSE i \in 1..Len(s) :
                         /\ ~IsSpace(s[i])
                         /\ \A j \in 1..(i - 1) : IsSpace(s[j])
             last  == CHOOSE i \in 1..Len(s) :
                         /\ ~IsSpace(s[i])
                         /\ \A j \in (i + 1)..Len(s) : IsSpace(s[j])
         IN SubSeq(s, first, last)

(* str.split('-')[0] *)
SplitDashFirst(s) ==
    IF \E i \in 1..Len(s) : s[i] = "-"
    THEN SubSeq(s, 1, (CHOOSE i \in 1..Len(s) :
                          s[i] = "-" /\ \A j \in 1..(i - 1) : s[j] # "-") - 1)
    ELSE s

(* Truthiness of a str-or-None value. *)
Truthy(v) == v # None /\ v # <<>>

(* --------------------- provider error messages ------------------------- *)


MsgTooManyRequests ==
    <<"4", "2", "9", " ", "T", "o", "o", " ", "M", "a", "n", "y", " ", "R", "e", "q", "u", "e", "s", "t", "s">>

MsgTimeout ==
    <<"R", "e", "a", "d", " ", "t", "i", "m", "e", "o", "u", "t">>

MsgConnection ==
    <<"C", "o", "n", "n", "e", "c", "t", "i", "o", "n", " ", "r", "e", "s", "e", "t">>

MsgBadResponse ==
    <<"B", "a", "d", " ", "r", "e", "s", "p", "o", "n", "s", "e", " ", "f", "r", "o", "m", " ", "G", "o", "o", "g", "l", "e", " ", "T", "r", "a", "n", "s", "l", "a", "t", "e">>

MsgInvalidArgument ==
    <<"i", "n", "v", "a", "l", "i", "d", " ", "a", "r", "g", "u", "m", "e", "n", "t">>

TransientMsgs == {MsgTooManyRequests, MsgTimeout, MsgConnection, MsgBadResponse}

NonTransientMsgs == {MsgInvalidArgument}

ProviderMsgs == TransientMsgs \cup NonTransientMsgs


SubTooManyRequests ==
    <<"t", "o", "o", " ", "m", "a", "n", "y", " ", "r", "e", "q", "u", "e", "s", "t", "s">>

SubTimeout ==
    <<"t", "i", "m", "e", "o", "u", "t">>

SubConnection ==
    <<"c", "o", "n", "n", "e", "c", "t", "i", "o", "n">>

SubBadResponse ==
    <<"b", "a", "d", " ", "r", "e", "s", "p", "o", "n", "s", "e", " ", "f", "r", "o", "m", " ", "g", "o", "o", "g", "l", "e", " ", "t", "r", "a", "n", "s", "l", "a", "t", "e">>

EmptyResponseAsBadResponse ==
    <<"B", "a", "d", " ", "r", "e", "s", "p", "o", "n", "s", "e", " ", "f", "r", "o", "m", " ", "G", "o", "o", "g", "l", "e", " ", "T", "r", "a", "n", "s", "l", "a", "t", "e", ".">>

(* The message raised at line 44 when the provider returns nothing. *)
EmptyResponseMsg ==
    <<"E", "m", "p", "t", "y", " ", "o", "r", " ", "i", "n", "v", "a", "l", "i", "d", " ", "t", "r", "a", "n", "s", "l", "a", "t", "i", "o", "n", " ", "r", "e", "s", "p", "o", "n", "s", "e", " ", "f", "r", "o", "m", " ", "G", "o", "o", "g", "l", "e", " ", "T", "r", "a", "n", "s", "l", "a", "t", "e", ".">>

(* ------------------- translate_text_logic (lines 29-60) ---------------- *)

IsTransientAny(e) == TRUE

(* The classification of the except branch, line 50. *)
IsTransient(e) ==
    \/ Contains(SubTooManyRequests, Lower(e))
    \/ Contains(SubTimeout, Lower(e))
    \/ Contains(SubConnection, Lower(e))
    \/ Contains(SubBadResponse, Lower(e))

BackoffDelayOffByOne(delay, n) == delay * (2 ^ n)

(* Exponential backoff, line 51; n is retries after the increment. *)
BackoffDelay(delay, n) == delay * (2 ^ (n - 1))

LoopContinuesInclusive(n, max) == n <= max

(* The loop test, line 34. *)
LoopContinues(n, max) == n < max

TextHola == <<"h", "o", "l", "a">>

LangFr == <<"f", "r">>

LangEn == <<"e", "n">>

LangEs == <<"e", "s">>

(* What one call of translator.translate can do: return an object with a  *)
(* text and a detected source language, return an object with an empty    *)
(* text, return None, or raise.                                           *)
ProviderOutcomes ==
    {[kind |-> "returns", translated |-> TRUE, text |-> TextHola, src |-> l, msg |-> <<>>] :
        l \in {LangFr, LangEn}}
    \cup {[kind |-> "returns", translated |-> TRUE, text |-> <<>>, src |-> LangEn, msg |-> <<>>]}
    \cup {[kind |-> "returns", translated |-> FALSE, text |-> <<>>, src |-> <<>>, msg |-> <<>>]}
    \cup {[kind |-> "raises", translated |-> FALSE, text |-> <<>>, src |-> <<>>, msg |-> m] :
        m \in ProviderMsgs}

(* `translated and translated.text`, line 38. *)
HasText(o) == o.kind = "returns" /\ o.translated /\ o.text # <<>>

(* The exception the except branch sees: the provider's, or line 44's. *)
CaughtMsg(o) == IF o.kind = "raises" THEN o.msg ELSE EmptyResponseMsg

CallEvent == <<"call", Len(outcomes) + 1>>

(* Lines 37-39: the call returns a non-empty text, which is returned. *)
AttemptSuccess ==
    /\ pc = "wrapper"
    /\ LoopContinues(retries, max_retries)
    /\ \E o \in ProviderOutcomes :
        /\ HasText(o)
        /\ outcomes' = Append(outcomes, o)
        /\ log' = Append(log, CallEvent)
        /\ result' = o.text
    /\ pc' = "returned"
    /\ UNCHANGED <<request, retries, max_retries, initial_delay, synth, files, response>>

(* Lines 46-53: a transient failure is counted, slept on and retried. *)
AttemptTransient ==
    /\ pc = "wrapper"
    /\ LoopContinues(retries, max_retries)
    /\ \E o \in ProviderOutcomes :
        /\ ~HasText(o)
        /\ IsTransient(CaughtMsg(o))
        /\ outcomes' = Append(outcomes, o)
        /\ retries' = retries + 1
        /\ log' = log \o <<CallEvent, <<"sleep", BackoffDelay(initial_delay, retries + 1)>>>>
    /\ UNCHANGED <<pc, request, max_retries, initial_delay, result, synth, files, response>>

(* Lines 46-48, 54-57: any other failure returns None at once. *)
AttemptFatal ==
    /\ pc = "wrapper"
    /\ LoopContinues(retries, max_retries)
    /\ \E o \in ProviderOutcomes :
        /\ ~HasText(o)
        /\ ~IsTransient(CaughtMsg(o))
        /\ outcomes' = Append(outcomes, o)
        /\ retries' = retries + 1
        /\ log' = Append(log, CallEvent)
    /\ result' = None
    /\ pc' = "returned"
    /\ UNCHANGED <<request, max_retries, initial_delay, synth, files, response>>

(* Lines 59-60: the loop ends with the retries used up. *)
Exhausted ==
    /\ pc = "wrapper"
    /\ ~LoopContinues(retries, max_retries)
    /\ result' = None
    /\ pc' = "returned"
    /\ UNCHANGED <<request, retries, max_retries, initial_delay, outcomes, log,
                   synth, files, response>>

NoRequest == [kind |-> "direct", text |-> None, src_lang |-> None,
              dest_lang |-> None, speak_output |-> None]

NoResponse == [status |-> 0, body |-> <<>>]

(* A direct call translate_text_logic(text, src, dest, m, d). *)
WrapperInit ==
    /\ pc = "wrapper"
    /\ request = NoRequest
    /\ retries = 0
    /\ max_retries \in 0..MaxRetriesBound
    /\ initial_delay \in 1..MaxInitialDelay
    /\ result = None
    /\ outcomes = <<>>
    /\ log = <<>>
    /\ synth = <<>>
    /\ files = {}
    /\ response = NoResponse

WrapperNext == AttemptSuccess \/ AttemptTransient \/ AttemptFatal \/ Exhausted

WrapperSpec == WrapperInit /\ [][WrapperNext]_vars

(* ---------------------- display names (lines 24-26) -------------------- *)


NameEnglish ==
    <<"e", "n", "g", "l", "i", "s", "h">>

NameSpanish ==
    <<"s", "p", "a", "n", "i", "s", "h">>

NameFrench ==
    <<"f", "r", "e", "n", "c", "h">>

UnknownPrefix ==
    <<"U", "n", "k", "n", "o", "w", "n", " ", "(">>

AutoDetectedPrefix ==
    <<"A", "u", "t", "o", "-", "d", "e", "t", "e", "c", "t", "e", "d", ":", " ">>

PleaseEnterText ==
    <<"P", "l", "e", "a", "s", "e", " ", "e", "n", "t", "e", "r", " ", "s", "o", "m", "e", " ", "t", "e", "x", "t", " ", "t", "o", " ", "t", "r", "a", "n", "s", "l", "a", "t", "e", ".">>

TranslationFailedText ==
    <<"T", "r", "a", "n", "s", "l", "a", "t", "i", "o", "n", " ", "f", "a", "i", "l", "e", "d", ".", " ", "P", "l", "e", "a", "s", "e", " ", "t", "r", "y", " ", "a", "g", "a", "i", "n", " ", "o", "r", " ", "c", "h", "e", "c", "k", " ", "s", "e", "r", "v", "e", "r", " ", "l", "o", "g", "s", ".">>

StaticAudioPrefix ==
    <<"/", "s", "t", "a", "t", "i", "c", "/", "a", "u", "d", "i", "o", "/">>

Mp3Suffix ==
    <<".", "m", "p", "3">>

LangAuto ==
    <<"a", "u", "t", "o">>

CodeUpperFr ==
    <<"F", "R">>

CodeEnUs ==
    <<"e", "n", "-", "U", "S">>

CodeUnknown ==
    <<"x", "x">>

TextBlank ==
    <<" ", " ">>

TextPaddedHi ==
    <<" ", "H", "i", " ">>

(* googletrans.LANGUAGES, restricted to three of its entries. *)
LANGUAGES ==
    [c \in {LangEn, LangEs, LangFr} |->
        IF c = LangEn THEN NameEnglish
        ELSE IF c = LangEs THEN NameSpanish ELSE NameFrench]

get_language_name(code) ==
    IF Lower(code) \in DOMAIN LANGUAGES
    THEN LANGUAGES[Lower(code)]
    ELSE UnknownPrefix \o code \o <<")">>

(* ------------------------- request bodies ------------------------------ *)

(* JSON values of the request body; Absent marks a key that is not there. *)
JStr(s) == [type |-> "str", v |-> s]

JNum == [type |-> "num", v |-> <<"5">>]

JTrue == [type |-> "bool", v |-> <<"true">>]

JFalse == [type |-> "bool", v |-> <<"false">>]

JNull == [type |-> "null", v |-> <<>>]

Absent == [type |-> "absent", v |-> <<>>]

(* Truthiness of a decoded JSON value. *)
JTruthy(j) ==
    \/ j.type = "str" /\ j.v # <<>>
    \/ j.type = "num" /\ j.v # <<"0">>
    \/ j.type = "bool" /\ j.v = <<"true">>

TextValues == {Absent, JNum, JStr(<<>>), JStr(TextBlank), JStr(TextPaddedHi)}

SrcLangValues == {Absent, JNull, JStr(LangAuto), JStr(CodeUpperFr)}

DestLangValues == {Absent, JNum, JStr(CodeEnUs), JStr(CodeUnknown)}

SpeakValues == {Absent, JTrue, JFalse}

(* A POST /translate request: no JSON body, a JSON array, or a JSON object. *)
Requests ==
    {[kind |-> k, text |-> Absent, src_lang |-> Absent, dest_lang |-> Absent,
      speak_output |-> Absent] : k \in {"nojson", "array"}}
    \cup {[kind |-> "object", text |-> t, src_lang |-> s, dest_lang |-> d,
           speak_output |-> k] :
            t \in TextValues, s \in SrcLangValues, d \in DestLangValues,
            k \in SpeakValues}

(* dict.get(key, default) *)
Get(value, default) == IF value = Absent THEN default ELSE value

TextField(req) == Get(req.text, JStr(<<>>))

SrcField(req) == Get(req.src_lang, JStr(LangEn))

DestField(req) == Get(req.dest_lang, JStr(LangEs))

SpeakField(req) == Get(req.speak_output, JFalse)

(* Lines 97-102 raise when the body is no JSON object or when a field that *)
(* .strip()/.lower() is called on is no string.                            *)
ParseRaises(req) ==
    \/ req.kind # "object"
    \/ TextField(req).type # "str"
    \/ SrcField(req).type # "str"
    \/ DestField(req).type # "str"

(* The status the framework answers with when the view raises: request.json *)
(* rejects a non-JSON body with 400 or 415, or returns None and the        *)
(* AttributeError that follows is a 500; every other raise is a 500.       *)
ErrorStatuses(req) == IF req.kind = "nojson" THEN {400, 415, 500} ELSE {500}

(* Line 99 *)
input_text(req) == Strip(TextField(req).v)

(* Line 100 *)
src_lang_code(req) == Lower(SrcField(req).v)

(* Line 101 *)
dest_lang_code(req) == Lower(DestField(req).v)

(* Line 102 *)
speak_output(req) == JTruthy(SpeakField(req))

ResponseDataAudioGated(text, translated_text, audio_url, src_name, dest_name) ==
    [original_text |-> text,
     translated_text |-> IF translated_text # None /\ audio_url # None
                         THEN translated_text ELSE TranslationFailedText,
     audio_url |-> audio_url,
     src_lang_name |-> src_name,
     dest_lang_name |-> dest_name]

(* Lines 126-132 *)
ResponseData(text, translated_text, audio_url, src_name, dest_name) ==
    [original_text |-> text,
     translated_text |-> IF translated_text # None
                         THEN translated_text ELSE TranslationFailedText,
     audio_url |-> audio_url,
     src_lang_name |-> src_name,
     dest_lang_name |-> dest_name]

(* ----------------------- POST /translate (lines 94-133) ---------------- *)

(* Lines 97-102 raise: the framework answers with an error status. *)
ReceiveMalformed ==
    /\ pc = "idle"
    /\ \E req \in Requests :
        /\ ParseRaises(req)
        /\ request' = req
        /\ \E s \in ErrorStatuses(req) : response' = [status |-> s, body |-> <<>>]
    /\ pc' = "done"
    /\ UNCHANGED <<retries, max_retries, initial_delay, result, outcomes, log,
                   synth, files>>

(* Lines 97-115: empty text is answered at once. *)
ReceiveEmptyText ==
    /\ pc = "idle"
    /\ \E req \in Requests :
        /\ ~ParseRaises(req)
        /\ input_text(req) = <<>>
        /\ request' = req
        /\ response' =
            [status |-> 200,
             body |-> [original_text |-> <<>>,
                       translated_text |-> PleaseEnterText,
                       audio_url |-> None,
                       src_lang_name |-> get_language_name(src_lang_code(req)),
                       dest_lang_name |-> get_language_name(dest_lang_code(req))]]
    /\ pc' = "done"
    /\ UNCHANGED <<retries, max_retries, initial_delay, result, outcomes, log,
                   synth, files>>

(* Lines 97-118: the text is handed to translate_text_logic with its       *)
(* default max_retries and initial_delay.                                  *)
ReceiveAndTranslate ==
    /\ pc = "idle"
    /\ \E req \in Requests :
        /\ ~ParseRaises(req)
        /\ input_text(req) # <<>>
        /\ request' = req
    /\ retries' = 0
    /\ max_retries' = DefaultMaxRetries
    /\ initial_delay' = DefaultInitialDelay
    /\ pc' = "wrapper"
    /\ UNCHANGED <<result, outcomes, log, synth, files, response>>

ShouldSynthesizeIgnoringFlag(translated_text, speak) == Truthy(translated_text)

(* Line 121 *)
ShouldSynthesize(translated_text, speak) == Truthy(translated_text) /\ speak

Uuids == {<<"u", "1">>, <<"u", "2">>}

(* Line 75 *)
AudioFilename(id) == id \o Mp3Suffix

(* Line 80 *)
AudioUrl(id) == StaticAudioPrefix \o AudioFilename(id)

SynthCall(outcome) ==
    [text |-> result, lang |-> SplitDashFirst(dest_lang_code(request)),
     outcome |-> outcome]

Respond(audio_url) ==
    response' =
        [status |-> 200,
         body |-> ResponseData(input_text(request), result, audio_url,
                               get_language_name(src_lang_code(request)),
                               get_language_name(dest_lang_code(request)))]

(* Lines 120-133 when line 121 is false: no speech is generated. *)
FinishWithoutSpeech ==
    /\ pc = "returned"
    /\ request.kind = "object"
    /\ ~ShouldSynthesize(result, speak_output(request))
    /\ Respond(None)
    /\ pc' = "done"
    /\ UNCHANGED <<request, retries, max_retries, initial_delay, result,
                   outcomes, log, synth, files>>

(* Lines 120-133 with synthesize_speech_to_file (63-80) succeeding. *)
FinishWithSpeech ==
    /\ pc = "returned"
    /\ request.kind = "object"
    /\ ShouldSynthesize(result, speak_output(request))
    /\ \E id \in Uuids :
        /\ AudioFilename(id) \notin files
        /\ files' = files \cup {AudioFilename(id)}
        /\ Respond(AudioUrl(id))
    /\ synth' = Append(synth, SynthCall("saved"))
    /\ pc' = "done"
    /\ UNCHANGED <<request, retries, max_retries, initial_delay, result,
                   outcomes, log>>

(* Lines 120-133 with gTTS(...) or tts.save(...) raising (81-83); a save   *)
(* that fails may leave the file it had opened.                            *)
FinishSpeechFailed ==
    /\ pc = "returned"
    /\ request.kind = "object"
    /\ ShouldSynthesize(result, speak_output(request))
    /\ \/ /\ synth' = Append(synth, SynthCall("gtts_error"))
          /\ UNCHANGED files
       \/ /\ synth' = Append(synth, SynthCall("save_error"))
          /\ \E id \in Uuids :
              /\ AudioFilename(id) \notin files
              /\ files' \in {files, files \cup {AudioFilename(id)}}
    /\ Respond(None)
    /\ pc' = "done"
    /\ UNCHANGED <<request, retries, max_retries, initial_delay, result,
                   outcomes, log>>

(* The server with one POST /translate request to come. *)
Init ==
    /\ pc = "idle"
    /\ request = NoRequest
    /\ retries = 0
    /\ max_retries = DefaultMaxRetries
    /\ initial_delay = DefaultInitialDelay
    /\ result = None
    /\ outcomes = <<>>
    /\ log = <<>>
    /\ synth = <<>>
    /\ files = {}
    /\ response = NoResponse

Next ==
    \/ ReceiveMalformed
    \/ ReceiveEmptyText
    \/ ReceiveAndTranslate
    \/ AttemptSuccess
    \/ AttemptTransient
    \/ AttemptFatal
    \/ Exhausted
    \/ FinishWithoutSpeech
    \/ FinishWithSpeech
    \/ FinishSpeechFailed

Spec == Init /\ [][Next]_vars

(* ------------------------------ properties ----------------------------- *)

LastOutcome == outcomes[Len(outcomes)]

(* Outcome o is a provider call that raised one of the transient errors. *)
FailedTransiently(o) == o.kind = "raises" /\ o.msg \in TransientMsgs

(* Outcome o is a provider call that returned a non-empty translation. *)
Succeeded(o) == o.kind = "returns" /\ o.translated /\ o.text = TextHola

(* Outcome o is a provider call that returned None or an empty text. *)
ReturnedNothing(o) == o.kind = "returns" /\ (~o.translated \/ o.text = <<>>)

(* The delays slept so far, in order. *)
Sleeps ==
    LET s == SelectSeq(log, LAMBDA e : e[1] = "sleep")
    IN [i \in 1..Len(s) |-> s[i][2]]

(* call 1, sleep d, call 2, sleep 2d, ..., sleep d*2^(k-1), call k+1 *)
ExpectedLog(k, d) ==
    [j \in 1..(2 * k + 1) |->
        IF j % 2 = 1 THEN <<"call", (j + 1) \div 2>>
        ELSE <<"sleep", d * (2 ^ ((j \div 2) - 1))>>]

TranslationSucceeded == Len(outcomes) >= 1 /\ Succeeded(LastOutcome)

(* C1: with max_retries=3 and initial_delay=1, when every provider call    *)
(* fails transiently the wrapper returns Failure after exactly 3 calls and *)
(* has slept exactly 1s, 2s: nothing is slept after the third failure.     *)
C1_NoSleepAfterLastAttempt ==
    (/\ pc = "returned"
     /\ max_retries = 3
     /\ initial_delay = 1
     /\ \A i \in 1..Len(outcomes) : FailedTransiently(outcomes[i]))
    => (result = None /\ Len(outcomes) = 3 /\ Sleeps = <<1, 2>>)

(* C2: when the first k calls fail transiently and call k+1 returns a      *)
(* non-empty text, the wrapper returns that text after exactly k+1 calls   *)
(* (k < max_retries), and the calls and sleeps are exactly call 1, sleep   *)
(* initial_delay, call 2, sleep 2*initial_delay, ..., call k+1.            *)
C2_BackoffThenSuccess ==
    (/\ pc = "returned"
     /\ TranslationSucceeded
     /\ \A i \in 1..(Len(outcomes) - 1) : FailedTransiently(outcomes[i]))
    => (/\ result = LastOutcome.text
        /\ Len(outcomes) - 1 < max_retries
        /\ log = ExpectedLog(Len(outcomes) - 1, initial_delay))

C2_Witness ==
    /\ pc = "returned"
    /\ initial_delay = 1
    /\ Len(outcomes) = 3
    /\ outcomes[1].msg = MsgTimeout
    /\ outcomes[2].msg = MsgTooManyRequests
    /\ Succeeded(outcomes[3])
    /\ Sleeps = <<1, 2>>

(* C3: a provider call that raises an error matching none of the transient *)
(* substrings is the last call: the wrapper has returned Failure, nothing  *)
(* was slept after that call, and if it was the first call nothing was     *)
(* slept at all.                                                           *)
C3_NonTransientFailsAtOnce ==
    \A i \in 1..Len(outcomes) :
        (outcomes[i].kind = "raises" /\ outcomes[i].msg \in NonTransientMsgs)
        => (/\ i = Len(outcomes)
            /\ pc = "returned"
            /\ result = None
            /\ log[Len(log)] = <<"call", i>>
            /\ (i = 1 => log = <<<<"call", 1>>>>))

C3_Witness ==
    /\ pc = "returned"
    /\ max_retries = 3
    /\ Len(outcomes) = 2
    /\ FailedTransiently(outcomes[1])
    /\ outcomes[2].msg = MsgInvalidArgument
    /\ result = None

(* C4: a response carries an audio_url only if the translation succeeded,  *)
(* speak_output was requested and the synthesis succeeded; and the         *)
(* synthesis provider is called only after the translation of the request  *)
(* has succeeded, with speak_output true.                                  *)
C4_AudioUrlOnlyWhenSpoken ==
    /\ (response.status = 200 /\ response.body.audio_url # None)
        => (/\ TranslationSucceeded
            /\ request.speak_output = JTrue
            /\ Len(synth) = 1
            /\ synth[1].outcome = "saved")
    /\ synth # <<>>
        => (/\ TranslationSucceeded
            /\ pc = "done"
            /\ request.speak_output = JTrue)

C4_Witness ==
    /\ response.status = 200
    /\ response.body.audio_url = AudioUrl(<<"u", "1">>)
    /\ request.speak_output = JTrue

(* The text of the request is missing, empty or only whitespace. *)
EmptyTextRequest ==
    /\ request.kind = "object"
    /\ request.text \in {Absent, JStr(<<>>), JStr(TextBlank)}

C6_AlwaysStatus200 ==
    response # NoResponse => response.status = 200

(* C7: the wrapper never makes more than max_retries provider calls, and   *)
(* when max_retries calls were made and all failed it returns Failure.     *)
C7_CallsBoundedByMaxRetries ==
    /\ Len(outcomes) <= max_retries
    /\ (/\ pc = "returned"
        /\ Len(outcomes) = max_retries
        /\ \A i \in 1..Len(outcomes) : ~Succeeded(outcomes[i]))
        => result = None

C7_Witness ==
    /\ pc = "returned"
    /\ max_retries = 2
    /\ Len(outcomes) = 2
    /\ FailedTransiently(outcomes[1])
    /\ FailedTransiently(outcomes[2])
    /\ result = None

(* C8: with src_lang "auto" and a translation that succeeded with detected *)
(* source language L, the response names the source "Auto-detected: " plus *)
(* the display name of L and carries detected_src_lang_code = L.           *)
C8_AutoDetectedName ==
    (/\ response.status = 200
     /\ request.src_lang = JStr(LangAuto)
     /\ TranslationSucceeded)
    => (/\ response.body.src_lang_name =
              AutoDetectedPrefix \o get_language_name(LastOutcome.src)
        /\ "detected_src_lang_code" \in DOMAIN response.body
        /\ response.body.detected_src_lang_code = LastOutcome.src)

(* C9: when the translation succeeded and the synthesis failed, the        *)
(* synthesis provider was called exactly once and the response still has   *)
(* the translated text, with a null audio_url.                             *)
C9_SynthesisFailureKeepsText ==
    (/\ pc = "done"
     /\ synth # <<>>
     /\ synth[Len(synth)].outcome \in {"gtts_error", "save_error"})
    => (/\ Len(synth) = 1
        /\ response.status = 200
        /\ response.body.translated_text = LastOutcome.text
        /\ response.body.translated_text # TranslationFailedText
        /\ response.body.audio_url = None)

C9_Witness ==
    /\ pc = "done"
    /\ TranslationSucceeded
    /\ request.speak_output = JTrue
    /\ Len(synth) = 1
    /\ synth[1].outcome = "save_error"
    /\ response.body.translated_text = TextHola

(* C10: a provider call that returns None or an empty text is the last     *)
(* call: the wrapper has returned Failure and nothing was slept after it,  *)
(* even when retries remain.                                               *)
C10_EmptyResultFailsAtOnce ==
    \A i \in 1..Len(outcomes) :
        ReturnedNothing(outcomes[i])
        => (/\ i = Len(outcomes)
            /\ pc = "returned"
            /\ result = None
            /\ log[Len(log)] = <<"call", i>>)

C10_Witness ==
    /\ pc = "returned"
    /\ max_retries = 3
    /\ retries = 2
    /\ Len(outcomes) = 2
    /\ ReturnedNothing(outcomes[2])
    /\ result = None
=============================================================================
